---- MODULE Spec2Model ----
(***************************************************************************)
(* A model of src/main.py: the Flask quotes/authors API.                   *)
(*                                                                         *)
(* Text is modelled as a sequence of one-character strings, so that        *)
(* str.split(" ") is computed rather than assumed.  A JSON value is a      *)
(* tagged record [t, v]: t = "str" with v the characters, or t = "obj"     *)
(* with v the sequence of <<key, value>> pairs; Python's truthiness of     *)
(* both a str and a dict is "not empty", i.e. Len(v) > 0.                  *)
(*                                                                         *)
(* Each request is served by a worker (the development server is           *)
(* threaded; db.session is scoped to the request).  POST /quotes/ takes    *)
(* several steps, one per database round trip, which interleave with the   *)
(* steps of the other workers under Spec and run alone under SpecSeq.      *)
(* Logging (app.logger) is not part of the state.                          *)
(*                                                                         *)
(* Three restrictions keep the state space small and lose no behaviour of  *)
(* the tables.  The workers are interchangeable, so a request goes to the  *)
(* first free one.  Respond only clears a worker's own variables, so it    *)
(* is taken before the next request arrives.  A request that ends in the   *)
(* step it arrives in (a GET, an unrouted path, a POST that use_args       *)
(* rejects) reads the tables once or not at all, so it is explored in the  *)
(* states where no request is in progress: every content the tables have  *)
(* while a POST is in progress they also have after that POST has ended    *)
(* by a failed commit.                                                     *)
(***************************************************************************)
EXTENDS Integers, Sequences, FiniteSets, TLC

\* ---------------------------------------------------------------- bounds
NumWorkers  == 2
MaxNameLen  == 2
MaxRequests == 2
MaxClock    == 1

Workers == 1..NumWorkers
Chars   == {"a", " "}

VARIABLES
    authors,            \* table author: set of [id, first, last]
    quotes,             \* table quote: set of [id, content, author_id, posted_at, inserted_at]
    pc,                 \* per worker: position in the request
    req,                \* per worker: the request being served
    args,               \* per worker: new_quote's `args` (loaded by use_args)
    author,             \* per worker: new_quote's `author` (its id; None is 0)
    resp,               \* per worker: the response produced
    clock,              \* the server clock when last observed (utcnow())
    posted_at_default,  \* Quote.__init__'s default for posted_at
    nreq                \* number of POST /quotes/ requests received

vars == <<authors, quotes, pc, req, args, author, resp, clock, posted_at_default, nreq>>

\* ------------------------------------------------------------ JSON values
Strings == UNION {[1..n -> Chars] : n \in 0..MaxNameLen}

JStr(s) == [t |-> "str", v |-> s]
JObj(kv) == [t |-> "obj", v |-> kv]
Truthy(x) == Len(x.v) > 0

None == 0

\* The `author` values a client may send: any short string, {} or a
\* structured {"first": .., "last": ..} object.
JsonAuthors ==
    {JStr(s) : s \in Strings}
      \cup {JObj(<<>>), JObj(<< <<"first", <<"a">> >>, <<"last", <<"a">> >> >>)}

\* The `content` values a client may send.
JsonContents == {JStr(<<>>), JStr(<<"q">>)}

\* Request bodies: each of `content` and `author` present or absent.
Bodies ==
    {[content |-> c, author |-> a] : c \in JsonContents, a \in JsonAuthors}
      \cup {[content |-> c] : c \in JsonContents}
      \cup {[author |-> a] : a \in JsonAuthors}
      \cup {[k \in {} |-> JStr(<<>>)]}

\* ------------------------------------------------------------- exceptions
NoExc == [kind |-> "none", message |-> "", status_code |-> 0]

InvalidPayload(message) ==
    [kind |-> "InvalidPayload", message |-> message, status_code |-> 400]

NotFoundException(message) ==
    [kind |-> "NotFoundException", message |-> message, status_code |-> 404]

ServerErrorException ==
    [kind |-> "ServerErrorException", message |-> "Something went wrong.",
     status_code |-> 500]

\* Exceptions that are not APIException subclasses carry only their text.
PyExc(kind, text) == [kind |-> kind, message |-> text, status_code |-> 0]

\* webargs' abort(422): error.data["messages"]["json"] holds the field errors.
Http422(messages) == [kind |-> "HTTP422", message |-> messages, status_code |-> 422]

Http404 == [kind |-> "HTTP404", message |-> "", status_code |-> 404]

TypedKinds ==
    {"InvalidPayload", "BusinessException", "NotFoundException", "ServerErrorException"}

to_dict(error) == [message |-> error.message, status |-> "error"]

handle_exception(error) ==
    [code |-> error.status_code, json |-> to_dict(error)]

handle_not_found(error) == handle_exception(NotFoundException("Not Found."))

handle_422(error) == handle_exception(InvalidPayload(error.message))

\* Faulty variant: the generic envelope carries the text of the exception.
handle_general_exception_leak(error) ==
    handle_exception([ServerErrorException EXCEPT !.message = error.message])

handle_general_exception(error) == handle_exception(ServerErrorException)

\* Flask's choice of error handler for an exception leaving a view.
errorhandler(error) ==
    IF error.kind \in TypedKinds THEN handle_exception(error)
    ELSE IF error.kind = "HTTP404" THEN handle_not_found(error)
    ELSE IF error.kind = "HTTP422" THEN handle_422(error)
    ELSE handle_general_exception(error)

\* A response as the model keeps it: the HTTP status, the JSON body, the
\* exception that produced it (NoExc for a success) and whether the wrapped
\* view function ran.
Response(r, raised, handled) ==
    [code |-> r.code, json |-> r.json, raised |-> raised, handled |-> handled]

ErrorResponse(error, handled) == Response(errorhandler(error), error, handled)

NoResp == [code |-> 0, json |-> <<>>, raised |-> NoExc, handled |-> FALSE]

\* ---------------------------------------------------------------- schemas
\* Python's str.split(" "): one token more than there are spaces.
RECURSIVE split(_)
split(s) ==
    IF \A i \in 1..Len(s) : s[i] # " " THEN <<s>>
    ELSE LET i == CHOOSE i \in 1..Len(s) :
                      s[i] = " " /\ \A j \in 1..(i - 1) : s[j] # " "
         IN <<SubSeq(s, 1, i - 1)>> \o split(SubSeq(s, i + 1, Len(s)))

must_not_be_blank(data) == ~Truthy(data)    \* TRUE: ValidationError is raised

\* QuoteSchema.process_author (pre_load): [raised, author_dict].
process_author(data) ==
    IF "author" \in DOMAIN data /\ Truthy(data.author)
    THEN IF data.author.t # "str"
         THEN [raised |-> PyExc("AttributeError",
                                "'dict' object has no attribute 'split'"),
               author_dict |-> JObj(<<>>)]
         ELSE LET parts == split(data.author.v)
              IN IF Len(parts) < 2
                 THEN [raised |-> PyExc("ValueError",
                           "not enough values to unpack (expected 2, got 1)"),
                       author_dict |-> JObj(<<>>)]
                 ELSE IF Len(parts) > 2
                 THEN [raised |-> PyExc("ValueError",
                           "too many values to unpack (expected 2)"),
                       author_dict |-> JObj(<<>>)]
                 ELSE [raised |-> NoExc,
                       author_dict |-> JObj(<< <<"first", parts[1]>>,
                                               <<"last", parts[2]>> >>)]
    ELSE [raised |-> NoExc, author_dict |-> JObj(<<>>)]

\* The field errors of QuoteSchema on the pre-processed data.
content_errors(data) ==
    IF "content" \notin DOMAIN data THEN {"Missing data for required field."}
    ELSE IF must_not_be_blank(data.content) THEN {"Data not provided."}
    ELSE {}

author_errors(author_dict) ==
    IF must_not_be_blank(author_dict) THEN {"Data not provided."} ELSE {}

\* use_args(quote_schema): pre_load, then validation; a ValidationError is
\* turned into abort(422) by webargs.  [raised, args].
NoArgs == [content |-> <<>>, author |-> [first |-> <<>>, last |-> <<>>]]

use_args(data) ==
    LET p == process_author(data)
        errors == [content |-> content_errors(data),
                   author |-> author_errors(p.author_dict)]
    IN IF p.raised.kind # "none" THEN [raised |-> p.raised, args |-> NoArgs]
       ELSE IF errors.content # {} \/ errors.author # {}
       THEN [raised |-> Http422(errors), args |-> NoArgs]
       ELSE [raised |-> NoExc,
             args |-> [content |-> data.content.v,
                       author |-> [first |-> p.author_dict.v[1][2],
                                   last |-> p.author_dict.v[2][2]]]]

format_name(a) == a.last \o <<",", " ">> \o a.first

AuthorSchema_dump(a) ==
    [id |-> a.id, first |-> a.first, last |-> a.last,
     formatted_name |-> format_name(a)]

\* quote.author: the relationship, resolved through author_id; None (dumped
\* as null) when author_id names no row.
NullAuthor == [id |-> 0, first |-> <<>>, last |-> <<>>]

Quote_author(q, tbl) ==
    IF \E a \in tbl : a.id = q.author_id
    THEN CHOOSE a \in tbl : a.id = q.author_id
    ELSE NullAuthor

QuoteSchema_dump(q, tbl) ==
    [id |-> q.id, content |-> q.content, posted_at |-> q.posted_at,
     author |-> AuthorSchema_dump(Quote_author(q, tbl))]

\* ------------------------------------------------------------------- CRUD
Ids(tbl) == {r.id : r \in tbl}

\* The primary key the store assigns to the next row.
NextId(tbl) ==
    IF tbl = {} THEN 1
    ELSE (CHOOSE m \in Ids(tbl) : \A i \in Ids(tbl) : i <= m) + 1

\* CRUDBase.get: the id of the row, or None.
CRUDBase_get(tbl, id) == IF id \in Ids(tbl) THEN id ELSE None

\* Faulty variant: the filter compares each column with the other argument.
get_by_name_swapped(tbl, first, last) ==
    LET found == {a \in tbl : a.first = last /\ a.last = first}
    IN IF found = {} THEN {None} ELSE Ids(found)

\* CRUDAuthor.get_by_name: what .first() may return (no ORDER BY).
get_by_name(tbl, first, last) ==
    LET found == {a \in tbl : a.first = first /\ a.last = last}
    IN IF found = {} THEN {None} ELSE Ids(found)

\* CRUDBase.create for Author: the row added and committed.
CRUDBase_create(tbl, obj_in) ==
    [id |-> NextId(tbl), first |-> obj_in.first, last |-> obj_in.last]

\* Faulty variant: insert-or-fetch on (first, last), as under a uniqueness constraint.
Author_insert_unique(tbl, a) ==
    IF \E b \in tbl : b.first = a.first /\ b.last = a.last THEN tbl
    ELSE tbl \cup {a}

\* db.session.add and commit of an author row: a plain INSERT, the table
\* has no uniqueness constraint on (first, last).
Author_insert(tbl, a) == tbl \cup {a}

\* Faulty variant: author_id is never assigned.
Quote_init_no_author(content, author_id, default) ==
    [content |-> content, author_id |-> None, posted_at |-> default]

\* Quote.__init__ with posted_at not supplied.
Quote_init(content, author_id, default) ==
    [content |-> content, author_id |-> author_id, posted_at |-> default]

\* CRUDQuote.create: the row added and committed.  inserted_at records the
\* clock at the commit; the program does not store it.
CRUDQuote_create(tbl, obj_in, author_id, default, now) ==
    LET q == Quote_init(obj_in.content, author_id, default)
    IN [id |-> NextId(tbl), content |-> q.content, author_id |-> q.author_id,
        posted_at |-> q.posted_at, inserted_at |-> now]

\* ------------------------------------------------------------------- Init
NoReq == [op |-> "none", pk |-> 0, data |-> [k \in {} |-> JStr(<<>>)]]

Init ==
    /\ authors = {}
    /\ quotes = {}
    /\ pc = [w \in Workers |-> "idle"]
    /\ req = [w \in Workers |-> NoReq]
    /\ args = [w \in Workers |-> NoArgs]
    /\ author = [w \in Workers |-> None]
    /\ resp = [w \in Workers |-> NoResp]
    /\ clock = 0
    /\ posted_at_default = 0
    /\ nreq = 0

\* The request of worker w ends with response r.
Finish(w, r) ==
    /\ pc' = [pc EXCEPT ![w] = "done"]
    /\ resp' = [resp EXCEPT ![w] = r]
    /\ args' = [args EXCEPT ![w] = NoArgs]
    /\ author' = [author EXCEPT ![w] = None]

\* ---------------------------------------------------------------- actions
\* The clients send a new request once the responses already produced have
\* been collected (Respond); requests in progress are not waited for.
Collected == \A v \in Workers : pc[v] # "done"

\* No request is in progress or awaiting collection.
Quiet == \A v \in Workers : pc[v] = "idle"

\* A request is handed to the first free worker.
FirstFree(w) == pc[w] = "idle" /\ \A v \in 1..(w - 1) : pc[v] # "idle"

\* POST /quotes/ arrives: use_args parses and validates the body.
PostQuote(w, data) ==
    /\ FirstFree(w)
    /\ Collected
    /\ nreq < MaxRequests
    /\ nreq' = nreq + 1
    /\ req' = [req EXCEPT ![w] = [op |-> "POST /quotes/", pk |-> 0, data |-> data]]
    /\ LET r == use_args(data)
       IN IF r.raised.kind # "none"
          THEN Quiet /\ Finish(w, ErrorResponse(r.raised, FALSE))
          ELSE /\ pc' = [pc EXCEPT ![w] = "get_by_name"]
               /\ args' = [args EXCEPT ![w] = r.args]
               /\ UNCHANGED <<author, resp>>
    /\ UNCHANGED <<authors, quotes, clock, posted_at_default>>

\* new_quote, lines 291-293: the lookup.
GetByName(w) ==
    /\ pc[w] = "get_by_name"
    /\ \E r \in get_by_name(authors, args[w].author.first, args[w].author.last) :
          /\ author' = [author EXCEPT ![w] = r]
          /\ pc' = [pc EXCEPT ![w] = IF r = None THEN "create_author"
                                     ELSE "create_quote"]
    /\ UNCHANGED <<authors, quotes, req, args, resp, clock, posted_at_default, nreq>>

\* new_quote, line 295: the author insert and its commit.
CreateAuthor(w) ==
    /\ pc[w] = "create_author"
    /\ LET a == CRUDBase_create(authors, args[w].author)
       IN /\ authors' = Author_insert(authors, a)
          /\ author' = [author EXCEPT ![w] = a.id]
    /\ pc' = [pc EXCEPT ![w] = "create_quote"]
    /\ UNCHANGED <<quotes, req, args, resp, clock, posted_at_default, nreq>>

\* new_quote, lines 297-299, and response_schema's dump of the quote.  The
\* clock has reached `now`, any time not before the last one observed.
CreateQuote(w) ==
    /\ pc[w] = "create_quote"
    /\ \E now \in clock..MaxClock :
          LET q == CRUDQuote_create(quotes, [content |-> args[w].content],
                                    author[w], posted_at_default, now)
          IN /\ clock' = now
             /\ quotes' = quotes \cup {q}
             /\ Finish(w, Response([code |-> 200,
                                    json |-> QuoteSchema_dump(q, authors)],
                                   NoExc, TRUE))
    /\ UNCHANGED <<authors, req, posted_at_default, nreq>>

\* Faulty variant: the failure is compensated by deleting the authors no quote
\* references.
AfterFailedCommit_compensated(tbl) ==
    {a \in tbl : \E q \in quotes : q.author_id = a.id}

\* What a failed commit leaves in the author table: the session's pending
\* row is never written, and nothing committed earlier is undone.
AfterFailedCommit(tbl) == tbl

\* db.session.commit() raises (the store is locked or unreachable): the
\* exception leaves new_quote.
CommitFails(w) ==
    /\ pc[w] \in {"create_author", "create_quote"}
    /\ authors' = AfterFailedCommit(authors)
    /\ quotes' = quotes
    /\ Finish(w, ErrorResponse(PyExc("OperationalError", "database is locked"),
                               TRUE))
    /\ UNCHANGED <<req, clock, posted_at_default, nreq>>

\* Faulty variant: the wrapper does not raise, and the view dumps None.
get_author_by_pk_no_raise(pk) ==
    IF CRUDBase_get(authors, pk) = None
    THEN Response([code |-> 200, json |-> AuthorSchema_dump(NullAuthor)],
                  NoExc, TRUE)
    ELSE Response([code |-> 200,
                   json |-> AuthorSchema_dump(CHOOSE a \in authors : a.id = pk)],
                  NoExc, TRUE)

\* get_author_by_pk's wrapper: the response for GET /authors/<pk>.
get_author_by_pk(pk) ==
    IF CRUDBase_get(authors, pk) = None
    THEN ErrorResponse(NotFoundException("Author Not Found"), FALSE)
    ELSE Response([code |-> 200,
                   json |-> AuthorSchema_dump(CHOOSE a \in authors : a.id = pk)],
                  NoExc, TRUE)

\* get_quote_by_pk's wrapper: the response for GET /quotes/<pk>.
get_quote_by_pk(pk) ==
    IF CRUDBase_get(quotes, pk) = None
    THEN ErrorResponse(NotFoundException("Quote Not Found"), FALSE)
    ELSE Response([code |-> 200,
                   json |-> QuoteSchema_dump(CHOOSE q \in quotes : q.id = pk,
                                             authors)],
                  NoExc, TRUE)

GetAuthor(w, pk) ==
    /\ FirstFree(w)
    /\ Quiet
    /\ req' = [req EXCEPT ![w] = [op |-> "GET /authors/", pk |-> pk, data |-> NoReq.data]]
    /\ Finish(w, get_author_by_pk(pk))
    /\ UNCHANGED <<authors, quotes, clock, posted_at_default, nreq>>

GetQuote(w, pk) ==
    /\ FirstFree(w)
    /\ Quiet
    /\ req' = [req EXCEPT ![w] = [op |-> "GET /quotes/", pk |-> pk, data |-> NoReq.data]]
    /\ Finish(w, get_quote_by_pk(pk))
    /\ UNCHANGED <<authors, quotes, clock, posted_at_default, nreq>>

\* A path no route matches: Flask raises 404.
Unrouted(w) ==
    /\ FirstFree(w)
    /\ Quiet
    /\ req' = [req EXCEPT ![w] = [op |-> "unrouted", pk |-> 0, data |-> NoReq.data]]
    /\ Finish(w, ErrorResponse(Http404, FALSE))
    /\ UNCHANGED <<authors, quotes, clock, posted_at_default, nreq>>

\* The response leaves the server and the worker is free again.
Respond(w) ==
    /\ pc[w] = "done"
    /\ pc' = [pc EXCEPT ![w] = "idle"]
    /\ req' = [req EXCEPT ![w] = NoReq]
    /\ resp' = [resp EXCEPT ![w] = NoResp]
    /\ UNCHANGED <<authors, quotes, args, author, clock, posted_at_default, nreq>>

\* The primary keys a client may ask for: every stored one and one more.
Pks == 1..(MaxRequests + 1)

Next ==
    \/ \E w \in Workers, data \in Bodies : PostQuote(w, data)
    \/ \E w \in Workers : GetByName(w)
    \/ \E w \in Workers : CreateAuthor(w)
    \/ \E w \in Workers : CreateQuote(w)
    \/ \E w \in Workers : CommitFails(w)
    \/ \E w \in Workers, pk \in Pks : GetAuthor(w, pk)
    \/ \E w \in Workers, pk \in Pks : GetQuote(w, pk)
    \/ \E w \in Workers : Unrouted(w)
    \/ \E w \in Workers : Respond(w)

Spec == Init /\ [][Next]_vars

\* Non-concurrent execution: a request is received only when no other
\* request is in progress.
PostQuoteSeq(w, data) == Quiet /\ PostQuote(w, data)

NextSeq ==
    \/ \E w \in Workers, data \in Bodies : PostQuoteSeq(w, data)
    \/ \E w \in Workers : GetByName(w)
    \/ \E w \in Workers : CreateAuthor(w)
    \/ \E w \in Workers : CreateQuote(w)
    \/ \E w \in Workers : CommitFails(w)
    \/ \E w \in Workers, pk \in Pks : GetAuthor(w, pk)
    \/ \E w \in Workers, pk \in Pks : GetQuote(w, pk)
    \/ \E w \in Workers : Unrouted(w)
    \/ \E w \in Workers : Respond(w)

SpecSeq == Init /\ [][NextSeq]_vars

\* ----------------------------------------------------------------- claims
IsPost(r) == r.op = "POST /quotes/"

BlankContent(data) == "content" \notin DOMAIN data \/ ~Truthy(data.content)

\* The author field is a string with at least one space.
SpacedAuthor(data) ==
    /\ "author" \in DOMAIN data
    /\ data.author.t = "str"
    /\ \E i \in 1..Len(data.author.v) : data.author.v[i] = " "

FirstSpace(s) == CHOOSE i \in 1..Len(s) : s[i] = " " /\ \A j \in 1..(i - 1) : s[j] # " "
BeforeFirstSpace(s) == SubSeq(s, 1, FirstSpace(s) - 1)
AfterFirstSpace(s) == SubSeq(s, FirstSpace(s) + 1, Len(s))

SameName(a, n) == a.first = n.first /\ a.last = n.last

ErrorEnvelope(message) == [message |-> message, status |-> "error"]

\* C1 (under SpecSeq, one request at a time): the author table never holds
\* two rows with the same (first, last); a POST whose name is already
\* stored leaves the author table as it is and takes that row's id, and the
\* quote it then inserts has a new id and references that author.
UniqueAuthorNames ==
    \A a1, a2 \in authors : SameName(a1, a2) => a1.id = a2.id

C1_ReuseStep ==
    \A w \in Workers :
        /\ (/\ pc[w] = "get_by_name"
            /\ pc'[w] # "get_by_name"
            /\ \E a \in authors : SameName(a, args[w].author))
           => /\ authors' = authors
              /\ pc'[w] = "create_quote"
              /\ \E a \in authors : a.id = author'[w] /\ SameName(a, args[w].author)
        /\ (pc[w] = "create_quote" /\ pc'[w] = "done" /\ resp'[w].code = 200)
           => /\ authors' = authors
              /\ \E q \in quotes' :
                    /\ q.id \notin Ids(quotes)
                    /\ quotes' = quotes \cup {q}
                    /\ q.author_id = author[w]
                    /\ resp'[w].json.id = q.id
                    /\ resp'[w].json.author.id = author[w]
                    /\ SameName(resp'[w].json.author, args[w].author)

\* C1: the invariant and the step property together.
C1_AuthorReuse == []UniqueAuthorNames /\ [][C1_ReuseStep]_vars

\* Two POSTs have succeeded and the second reused the first's author.
C1_Witness ==
    /\ Cardinality(authors) = 1
    /\ Cardinality(quotes) = 2
    /\ \E w \in Workers : pc[w] = "done" /\ IsPost(req[w]) /\ resp[w].code = 200

\* C2: a POST /quotes/ whose content is missing or empty, whatever its
\* author field, ends at once with the InvalidPayload envelope and status
\* 400, and leaves both tables unchanged.
C2_BlankContentStep ==
    \A w \in Workers :
        (pc[w] = "idle" /\ IsPost(req'[w]) /\ BlankContent(req'[w].data))
        => /\ pc'[w] = "done"
           /\ resp'[w].code = 400
           /\ resp'[w].json.status = "error"
           /\ authors' = authors
           /\ quotes' = quotes

\* C2: every step satisfies C2_BlankContentStep.
C2_BlankContentRejected == [][C2_BlankContentStep]_vars

\* C3: GET /authors/<pk> and GET /quotes/<pk> for a pk that matches no row
\* answer 404 with the envelope "Author Not Found" / "Quote Not Found"
\* without running the view; for a pk that matches a row the view runs and
\* the row is returned; the tables are unchanged either way.
C3_GetStep ==
    \A w \in Workers :
        /\ (pc[w] = "idle" /\ req'[w].op = "GET /authors/")
           => /\ authors' = authors /\ quotes' = quotes
              /\ pc'[w] = "done"
              /\ IF req'[w].pk \in Ids(authors)
                 THEN /\ resp'[w].code = 200
                      /\ resp'[w].handled
                      /\ "status" \notin DOMAIN resp'[w].json
                      /\ resp'[w].json.id = req'[w].pk
                 ELSE /\ resp'[w].code = 404
                      /\ resp'[w].json = ErrorEnvelope("Author Not Found")
                      /\ ~resp'[w].handled
        /\ (pc[w] = "idle" /\ req'[w].op = "GET /quotes/")
           => /\ authors' = authors /\ quotes' = quotes
              /\ pc'[w] = "done"
              /\ IF req'[w].pk \in Ids(quotes)
                 THEN /\ resp'[w].code = 200
                      /\ resp'[w].handled
                      /\ "status" \notin DOMAIN resp'[w].json
                      /\ resp'[w].json.id = req'[w].pk
                 ELSE /\ resp'[w].code = 404
                      /\ resp'[w].json = ErrorEnvelope("Quote Not Found")
                      /\ ~resp'[w].handled

\* C3: every step satisfies C3_GetStep.
C3_NotFound == [][C3_GetStep]_vars

\* A GET for an author that is not stored, while another author is.
C3_Witness ==
    \E w \in Workers :
        /\ pc[w] = "done"
        /\ req[w].op = "GET /authors/"
        /\ authors # {}
        /\ req[w].pk \notin Ids(authors)
        /\ resp[w].code = 404

\* C4: a POST /quotes/ with non-blank content whose author is a string with
\* at least one space proceeds with, and (unless a commit fails) answers
\* with, the author whose first is the text before the first space and
\* whose last is everything after it.
C4_SplitAtFirstSpace ==
    \A w \in Workers :
        (/\ IsPost(req[w])
         /\ ~BlankContent(req[w].data)
         /\ SpacedAuthor(req[w].data))
        => LET n == [first |-> BeforeFirstSpace(req[w].data.author.v),
                     last |-> AfterFirstSpace(req[w].data.author.v)]
           IN /\ pc[w] \in {"get_by_name", "create_author", "create_quote"}
                 => SameName(args[w].author, n)
              /\ pc[w] = "done"
                 => \/ resp[w].raised.kind = "OperationalError"
                    \/ /\ resp[w].code = 200
                       /\ SameName(resp[w].json.author, n)

\* C5: every stored quote's author_id is not None and is the id of a
\* stored author.
C5_QuoteAuthorExists ==
    \A q \in quotes : q.author_id # None /\ q.author_id \in Ids(authors)

\* A quote is stored and a request has failed at a commit.
C5_Witness ==
    /\ quotes # {}
    /\ \E w \in Workers : pc[w] = "done" /\ resp[w].raised.kind = "OperationalError"

\* C6: every stored quote's posted_at is the clock at the moment it was
\* inserted, so quotes inserted at different times differ in posted_at.
C6_PostedAtIsInsertionTime ==
    /\ \A q \in quotes : q.posted_at = q.inserted_at
    /\ \A q1, q2 \in quotes :
          q1.inserted_at # q2.inserted_at => q1.posted_at # q2.posted_at

\* C7: a request ended by an exception that is neither one of the four
\* typed kinds nor an HTTP error of the framework answers 500 with the
\* generic envelope, whose message is not the exception's text.
Untyped(e) == e.kind \notin TypedKinds \cup {"none", "HTTP404", "HTTP422"}

C8_RaceStep ==
    \A w \in Workers :
        /\ (/\ pc[w] = "get_by_name"
            /\ pc'[w] # "get_by_name"
            /\ ~\E a \in authors : SameName(a, args[w].author))
           => /\ pc'[w] = "create_author"
              /\ authors' = authors
        /\ (pc[w] = "create_author" /\ pc'[w] = "create_quote")
           => \E a \in authors' \ authors :
                 /\ a.id \notin Ids(authors)
                 /\ SameName(a, args[w].author)
                 /\ authors' = authors \cup {a}
                 /\ author'[w] = a.id
        /\ (pc[w] = "create_quote" /\ pc'[w] = "done" /\ resp'[w].code = 200)
           => \E q \in quotes' \ quotes : q.author_id = author[w]

\* C8: every step satisfies C8_RaceStep.
C8_NonAtomicGetOrCreate == [][C8_RaceStep]_vars

\* Two author rows with the same name and different ids, each referenced
\* by one of two quotes.
C8_Witness ==
    \E a1, a2 \in authors :
        /\ a1.id # a2.id
        /\ SameName(a1, a2)
        /\ \E q1, q2 \in quotes : q1.author_id = a1.id /\ q2.author_id = a2.id

\* C9 (under SpecSeq): the author insert is committed on its own; a failure
\* at the quote commit undoes nothing, so the author row stays and the
\* quote table is unchanged; a later POST of the same name takes the id of
\* the stored row and inserts no author.
C9_OrphanStep ==
    \A w \in Workers :
        /\ (pc[w] = "create_author" /\ pc'[w] = "create_quote")
           => /\ author'[w] \in Ids(authors') \ Ids(authors)
              /\ \A q \in quotes' : q.author_id # author'[w]
        /\ (pc[w] = "create_quote" /\ pc'[w] = "done" /\ resp'[w].code # 200)
           => /\ authors' = authors
              /\ quotes' = quotes
              /\ author[w] \in Ids(authors')
        /\ (/\ pc[w] = "get_by_name"
            /\ pc'[w] # "get_by_name"
            /\ \E a \in authors : SameName(a, args[w].author))
           => /\ authors' = authors
              /\ author'[w] = (CHOOSE a \in authors : SameName(a, args[w].author)).id

\* C9: every step satisfies C9_OrphanStep.
C9_OrphanedAuthor == [][C9_OrphanStep]_vars

\* The only POST so far inserted its author and failed at the quote commit.
C9_Witness ==
    /\ nreq = 1
    /\ Cardinality(authors) = 1
    /\ quotes = {}
    /\ \E w \in Workers : pc[w] = "done" /\ resp[w].raised.kind = "OperationalError"

\* C10: every stored author has a non-empty first and a non-empty last.
C10_AuthorNamesNonEmpty ==
    \A a \in authors : a.first # <<>> /\ a.last # <<>>

====
